---- MODULE Spec2Model ----
EXTENDS Integers, FiniteSets, Sequences, TLC

(***************************************************************************)
(* Model of the authentication / authorization core of the UMS service:    *)
(*   - src/src/services/auth.py, src/src/util/auth.py  (tokens, login,      *)
(*     refresh flow, identity resolvers)                                    *)
(*   - src/src/routes/auth/service.py, main.py          (legacy login and   *)
(*     the persisted password-reset token)                                  *)
(*   - src/src/services/points.py, controllers/points.py (ownership rules)  *)
(*   - src/src/controllers/users.py, services/users.py  (the user store)    *)
(*   - src/src/services/classes.py, services/departments.py (soft delete)   *)
(* Time is counted in whole seconds, the resolution of the exp claim.       *)
(***************************************************************************)

\* ------------------------------------------------------------------ bounds
MaxClock == 2
MaxUsers == 2
MaxSignups == 1
MaxIssued == 4
MaxProcs == 2
MaxPoints == 2

\* ------------------------------------------------------- program constants
DefaultAccessTtl == 60
DefaultRefreshTtl == 604800

\* ------------------------------------------------------------ value spaces
Emails == {"a@x.com", "b@x.com"}
Passwords == {"secret", "other"}
\* the password a principal registers with
SignupPasswords == {"secret"}
Salts == {"salt1"}
UserIds == 1..MaxUsers
\* configured lifetimes <<access, refresh>>, in seconds (the settings are
\* minutes as floats): usual, equal, zero, a negative one
TtlConfigs == {<<1, 2>>, <<1, 1>>, <<0, 0>>, <<-1, 2>>, <<2, -1>>}

Absent == "<absent>"
AbsentId == 0
NoUser == [id |-> 0, email |-> Absent, password |-> <<"none", 0, "">>,
           super_admin |-> FALSE, disabled |-> FALSE]
NoToken == [key |-> "none", sub |-> Absent, id |-> AbsentId, exp |-> 0]

VARIABLES
    clock,          \* wall clock, whole seconds
    accessTtl,      \* settings.ACCESS_TOKEN_EXPIRE_MINUTES, as seconds
    refreshTtl,     \* settings.REFRESH_TOKEN_EXPIRE_MINUTES, as seconds
    users,          \* table users: set of rows
    nextId,         \* next fresh primary key of users
    issuedAccess,   \* history: tokens handed out as access_token
    issuedRefresh,  \* history: tokens handed out as refresh_token
    renewed,        \* history: access tokens minted by a refresh made with
                    \* a login's refresh token after that login's access
                    \* token had expired
    resp,           \* the last response of the auth API
    resetRows,      \* table password_reset_tokens (legacy flow)
    resetIssued,    \* history: the reset-token rows that were created
    legacyUsers,    \* legacy users table: id -> stored password
    pwWrites,       \* history: committed password UPDATEs of the legacy table
    req,            \* per in-flight redemption request: its position and locals
    students,       \* table students: set of rows [id, user_id]
    teachers,       \* table teachers: set of rows [id, user_id]
    principals,     \* users of the points subsystem
    points,         \* table points: set of rows
    presp,          \* the last response of the points API
    plist,          \* the filters and rows of the last points list response
    uresp,          \* the last response of an endpoint that takes no
                    \* identity dependency (/users, /classes, ...)
    records,        \* tables classes and departments: set of rows
    rresp           \* the last response of the classes / departments API

authVars == <<clock, accessTtl, refreshTtl, users, nextId, issuedAccess,
              issuedRefresh, renewed, resp, uresp>>
resetVars == <<resetRows, resetIssued, legacyUsers, pwWrites, req>>
pointVars == <<students, teachers, principals, points, presp, plist>>
recordVars == <<records, rresp>>
vars == <<clock, accessTtl, refreshTtl, users, nextId, issuedAccess,
          issuedRefresh, renewed, resp, resetRows, resetIssued, legacyUsers, pwWrites, req,
          students, teachers, principals, points, presp, plist, uresp,
          records, rresp>>

\* ---------------------------------------------------------- password hasher
\* pwd_context.hash: a salted one-way hash; the string embeds scheme and salt.
get_password_hash(password, salt) == <<"sha256_crypt", salt, password>>

IsHash(h) == h[1] = "sha256_crypt"

\* pwd_context.verify: recomputes the digest with the embedded salt.
\* Only defined on well-formed hashes (see authenticate_user).
verify_password(plain_password, hashed_password) ==
    hashed_password[3] = plain_password

\* ------------------------------------------------------------- token codec
\* jwt.encode with the server secret: the claims plus the signature.
jwt_encodeMutant(sub, id, exp) == [key |-> "server", sub |-> Absent, id |-> id, exp |-> exp]
jwt_encode(sub, id, exp) == [key |-> "server", sub |-> sub, id |-> id, exp |-> exp]

\* jose: the signature must verify under the secret.
SignatureOk(token) == token.key = "server"

\* jose _validate_exp: raises ExpiredSignatureError iff exp < now.
ExpiredMutant(token, now) == FALSE
Expired(token, now) == token.exp < now

\* jwt.decode: TRUE iff it returns the payload, FALSE iff it raises JWTError.
jwt_decode_okMutant(token, now) == ~Expired(token, now)
jwt_decode_ok(token, now) == SignatureOk(token) /\ ~Expired(token, now)

\* create_access_token: "if expires_delta:" is false for a zero timedelta.
create_access_token(sub, id, expires_delta, now) ==
    jwt_encode(sub, id,
               IF expires_delta # 0 THEN now + expires_delta
                                    ELSE now + DefaultAccessTtl)

create_refresh_token(sub, id, expires_delta, now) ==
    jwt_encode(sub, id,
               IF expires_delta # 0 THEN now + expires_delta
                                    ELSE now + DefaultRefreshTtl)

\* ------------------------------------------------------------------ schemas
\* src/schemas/auth.py: the fields of TokenData (extra keywords are ignored
\* by the model class, reading a field that is not declared raises
\* AttributeError).
TokenDataFields == {"username"}

\* --------------------------------------------------------------- responses
\* the expires_in field of a token response: int(total_seconds()) of the
\* lifetime handed to the access-token encoder (whole seconds here)
expires_in(expires_delta) == expires_delta

Response(op, status, detail, email, password, token, access, refresh, principal, now) ==
    [op |-> op, status |-> status, detail |-> detail, email |-> email,
     password |-> password, token |-> token, access |-> access,
     refresh |-> refresh, principal |-> principal, now |-> now,
     expires_in |-> 0]

NoResponse ==
    Response("none", 0, "", Absent, "", NoToken, NoToken, NoToken, NoUser, 0)

\* the response of an endpoint without an identity dependency.
\* principal: what an identity dependency resolved (NoUser: none ran);
\* handler: the body of the endpoint was entered
UserResponse(resource, crud, status, token, principal, handler) ==
    [resource |-> resource, crud |-> crud, status |-> status, token |-> token,
     principal |-> principal, handler |-> handler]

NoUserResponse == UserResponse("none", "none", 0, NoToken, NoUser, FALSE)

\* HTTPException details
CredentialsDetail == "invalid_token: The access token expired"
CouldNotValidate == "Could not validate credentials"

\* -------------------------------------------------------------- user store
UsersByEmail(email) == {u \in users : u.email = email}
UsersById(id) == {u \in users : u.id = id}

\* query.first(): one of the matching rows, None when there is none.
First(rows) == IF rows = {} THEN {NoUser} ELSE rows

\* the outcome of a query that raised (connection lost, statement failed)
DbFailure == [NoUser EXCEPT !.email = "<db failure>"]
DbFailureDetail == "(OperationalError) server closed the connection"

\* ------------------------------------------------------ credential verifier
\* authenticate_user on the row get_user found (NoUser: get_user raised
\* InvalidUserException 404; DbFailure: the query raised and get_user wrapped
\* the exception in InvalidUserException 400). verify raises on a stored
\* value that is no hash.
authenticate_userMutant(user, password) ==
    IF user = NoUser THEN "UserNotFound" ELSE "User"
authenticate_user(user, password) ==
    IF user = DbFailure THEN "DbError"
    ELSE IF user = NoUser THEN "UserNotFound"
    ELSE IF ~IsHash(user.password) THEN "HashError"
    ELSE IF ~verify_password(password, user.password) THEN "False"
    ELSE "User"

\* ---------------------------------------------------------- session issuer
\* service_login_for_access_token for the row first() returned.
service_login_for_access_token(user, email, password, now) ==
    LET outcome == authenticate_user(user, password) IN
    CASE outcome = "UserNotFound" ->
           \* InvalidUserException -> HTTPException(e.status_code, e.detail)
           Response("login", 404, "User not found", email, password,
                    NoToken, NoToken, NoToken, NoUser, now)
      [] outcome = "DbError" ->
           \* InvalidUserException(400, str(e)) -> HTTPException(400, ...)
           Response("login", 400, DbFailureDetail, email, password,
                    NoToken, NoToken, NoToken, NoUser, now)
      [] outcome = "False" ->
           \* the 401 raised inside the try is caught by "except Exception"
           Response("login", 400, "401: Incorrect email or password", email,
                    password, NoToken, NoToken, NoToken, NoUser, now)
      [] outcome = "HashError" ->
           Response("login", 400, "hash could not be identified", email,
                    password, NoToken, NoToken, NoToken, NoUser, now)
      [] OTHER ->
           [Response("login", 200, "", email, password, NoToken,
                     create_access_token(user.email, user.id, accessTtl, now),
                     create_refresh_token(user.email, user.id, refreshTtl, now),
                     user, now)
              EXCEPT !.expires_in = expires_in(accessTtl)]

\* The history of handed-out tokens, bounded by MaxIssued.
Hand(r) ==
    /\ issuedAccess' = IF r.access = NoToken THEN issuedAccess
                       ELSE issuedAccess \cup {r.access}
    /\ issuedRefresh' = IF r.refresh = NoToken THEN issuedRefresh
                        ELSE issuedRefresh \cup {r.refresh}
    /\ Cardinality(issuedAccess' \cup issuedRefresh') <= MaxIssued

\* POST /auth/login: login_authorization re-raises the service's HTTPException.
login_authorization(email, password) ==
    /\ \E user \in First(UsersByEmail(email)) \cup {DbFailure} :
         /\ resp' = service_login_for_access_token(user, email, password, clock)
         /\ Hand(resp')
    /\ UNCHANGED <<clock, accessTtl, refreshTtl, users, nextId, renewed>>
    /\ UNCHANGED uresp /\ UNCHANGED resetVars /\ UNCHANGED pointVars /\ UNCHANGED recordVars

\* ---------------------------------------------------------------- sign-up
\* service_signup_users / db_signup_users: a registered email is refused with
\* 400; otherwise the row is committed with the hashed password, and the
\* "await" of the returned row (no awaitable) then raises TypeError -> 500.
service_signup_users(email, password) ==
    /\ IF UsersByEmail(email) # {}
       THEN /\ resp' = Response("signup", 400, "Email already registered", email,
                                password, NoToken, NoToken, NoToken, NoUser, clock)
            /\ UNCHANGED <<users, nextId>>
       ELSE /\ nextId <= MaxUsers
            /\ \E salt \in Salts :
                 users' = users \cup
                    {[id |-> nextId, email |-> email,
                      password |-> get_password_hash(password, salt),
                      super_admin |-> FALSE, disabled |-> FALSE]}
            /\ nextId' = nextId + 1
            /\ resp' = Response("signup", 500, "object User can't be used in 'await' expression",
                                email, password, NoToken, NoToken, NoToken, NoUser, clock)
    /\ UNCHANGED <<clock, accessTtl, refreshTtl, issuedAccess, issuedRefresh, renewed>>
    /\ UNCHANGED uresp /\ UNCHANGED resetVars /\ UNCHANGED pointVars /\ UNCHANGED recordVars

\* delete_user_by_id: the row is removed (db.delete); the 404 raised for an
\* unknown id is re-raised as a plain Exception by "except Exception" -> 500.
delete_user_by_id(user_id) ==
    /\ IF UsersById(user_id) = {}
       THEN /\ resp' = Response("delete_user", 500, "An unexpected error occurred", Absent,
                                "", NoToken, NoToken, NoToken, NoUser, clock)
            /\ UNCHANGED users
       ELSE /\ \E user \in UsersById(user_id) : users' = users \ {user}
            /\ resp' = Response("delete_user", 204, "", Absent, "", NoToken,
                                NoToken, NoToken, NoUser, clock)
    /\ UNCHANGED <<clock, accessTtl, refreshTtl, nextId, issuedAccess, issuedRefresh, renewed>>
    /\ UNCHANGED uresp /\ UNCHANGED resetVars /\ UNCHANGED pointVars /\ UNCHANGED recordVars

\* ------------------------------------------------------------ refresh flow
\* validate_refresh_token: the "id" claim of a token that decodes, None for a
\* token that does not decode or carries no (or an empty) id.
validate_refresh_tokenMutant(refresh_token, now) ==
    IF ~jwt_decode_ok(refresh_token, now) THEN AbsentId
    ELSE IF \E r \in issuedRefresh : r.id = refresh_token.id /\ r.exp > refresh_token.exp
    THEN AbsentId
    ELSE refresh_token.id
validate_refresh_token(refresh_token, now) ==
    IF ~jwt_decode_ok(refresh_token, now) THEN AbsentId
    ELSE refresh_token.id

\* gpt_tokens_service. With grant_type=authorization_code the code string is
\* passed to get_current_user_dep as its bearer argument, whose .credentials
\* read raises AttributeError -> 500.
gpt_tokens_service(grant_type, refresh_token, now) ==
    LET fail401 == Response("refresh", 401, CredentialsDetail, Absent, "",
                            refresh_token, NoToken, NoToken, NoUser, now) IN
    CASE grant_type = "refresh_token" ->
           IF refresh_token = NoToken THEN fail401
           ELSE LET user_id == validate_refresh_token(refresh_token, now) IN
                IF user_id = AbsentId THEN fail401
                ELSE [Response("refresh", 200, "", Absent, "", refresh_token,
                               create_access_token(Absent, user_id, accessTtl, now),
                               create_refresh_token(Absent, user_id, refreshTtl, now),
                               NoUser, now)
                        EXCEPT !.expires_in = expires_in(accessTtl)]
      [] grant_type = "authorization_code" ->
           Response("authorization_code", 500,
                    "'str' object has no attribute 'credentials'",
                    Absent, "", refresh_token, NoToken, NoToken, NoUser, now)
      [] OTHER -> [fail401 EXCEPT !.op = "unsupported_grant"]

GrantTypes == {"refresh_token", "authorization_code", "password"}

\* a forged token (signed with another key) and a string that is no token
Forged == [key |-> "forged", sub |-> "a@x.com", id |-> 1, exp |-> MaxClock + 1]
Malformed == [key |-> "malformed", sub |-> Absent, id |-> AbsentId, exp |-> 0]

\* what a client can put in a request: a token it was handed, or one it made
Presentable == issuedAccess \cup issuedRefresh \cup {Forged, Malformed, NoToken}

\* the lifetime the encoders apply for a configured one
EffectiveTtl(ttl, default) == IF ttl # 0 THEN ttl ELSE default

\* token is the refresh token of a login whose access token is expired at now
LoginAccessExpired(token, now) ==
    /\ token \in issuedRefresh /\ token.sub # Absent
    /\ \E a \in issuedAccess :
         /\ a.sub = token.sub /\ a.id = token.id
         /\ a.exp - EffectiveTtl(accessTtl, DefaultAccessTtl)
              = token.exp - EffectiveTtl(refreshTtl, DefaultRefreshTtl)
         /\ a.exp < now

\* POST /token
token_endpoint(grant_type, token) ==
    /\ resp' = gpt_tokens_service(grant_type, token, clock)
    /\ Hand(resp')
    /\ renewed' = IF resp'.op = "refresh" /\ resp'.status = 200
                     /\ LoginAccessExpired(token, clock)
                  THEN renewed \cup {resp'.access} ELSE renewed
    /\ UNCHANGED <<clock, accessTtl, refreshTtl, users, nextId>>
    /\ UNCHANGED uresp /\ UNCHANGED resetVars /\ UNCHANGED pointVars /\ UNCHANGED recordVars

\* -------------------------------------------------------- identity resolver
\* get_current_user (services/auth.py), for the row get_user's first() gives
\* for the sub claim. TokenData(email=...) keeps no email field, so reading
\* token_data.email raises AttributeError, which no handler catches -> 500.
get_current_userMutant(token, user, now) ==
    IF ~jwt_decode_ok(token, now)
    THEN Response("get_current_user", 401, CouldNotValidate, Absent, "",
                  token, NoToken, NoToken, NoUser, now)
    ELSE Response("get_current_user", 500,
                  "'TokenData' object has no attribute 'email'", Absent, "",
                  token, NoToken, NoToken, NoUser, now)
get_current_user(token, user, now) ==
    LET fail401 == Response("get_current_user", 401, CouldNotValidate, Absent, "",
                            token, NoToken, NoToken, NoUser, now) IN
    IF ~jwt_decode_ok(token, now) THEN fail401
    ELSE IF token.sub = Absent THEN fail401
    ELSE IF "email" \notin TokenDataFields
         THEN Response("get_current_user", 500,
                       "'TokenData' object has no attribute 'email'", Absent, "",
                       token, NoToken, NoToken, NoUser, now)
    ELSE IF user = NoUser THEN fail401
    ELSE Response("get_current_user", 200, "", Absent, "", token, NoToken,
                  NoToken, user, now)

\* get_current_user_dep (util/auth.py), for the row get_user_by_id's first()
\* gives for str(payload.get("id")). get_user_by_id turns its own 404 into a
\* plain Exception, which is no JWTError -> 500.
get_current_user_dep(token, user, now) ==
    IF token = NoToken
    THEN Response("get_current_user_dep", 401, CredentialsDetail, Absent, "",
                  token, NoToken, NoToken, NoUser, now)
    ELSE IF ~jwt_decode_ok(token, now)
    THEN Response("get_current_user_dep", 401, "Invalid authentication credentials",
                  Absent, "", token, NoToken, NoToken, NoUser, now)
    ELSE IF user = NoUser
    THEN Response("get_current_user_dep", 500, "An unexpected error occurred",
                  Absent, "", token, NoToken, NoToken, NoUser, now)
    ELSE Response("get_current_user_dep", 200, "", Absent, "", token, NoToken,
                  NoToken, user, now)

\* a protected request whose dependency is get_current_user
resolve(token) ==
    /\ \E user \in First(UsersByEmail(token.sub)) :
         resp' = get_current_user(token, user, clock)
    /\ UNCHANGED <<clock, accessTtl, refreshTtl, users, nextId, issuedAccess,
                   issuedRefresh, renewed>>
    /\ UNCHANGED uresp /\ UNCHANGED resetVars /\ UNCHANGED pointVars /\ UNCHANGED recordVars

\* a protected request whose dependency is get_current_user_dep
resolve_dep(token) ==
    /\ \E user \in First(UsersById(token.id)) :
         resp' = get_current_user_dep(token, user, clock)
    /\ UNCHANGED <<clock, accessTtl, refreshTtl, users, nextId, issuedAccess,
                   issuedRefresh, renewed>>
    /\ UNCHANGED uresp /\ UNCHANGED resetVars /\ UNCHANGED pointVars /\ UNCHANGED recordVars

\* ------------------------------------------------------------ legacy login
\* routes/auth: authenticate_user(fake_db, username, password) over the
\* in-module fake_users_db, whose one entry has the bcrypt hash of "secret".
LegacyAuthenticateParams == {"fake_db", "username", "password"}
LegacyLoginKeywords == {"username", "password", "db"}
FakeUsers == {"johndoe"}

legacy_authenticate_user(username, password) ==
    IF username \notin FakeUsers THEN "False"
    ELSE IF password # "secret" THEN "False"
    ELSE "User"

\* POST /auth/token (login_for_access_token): the keyword db= names no
\* parameter of authenticate_user, so the call raises TypeError -> 500; a
\* False result would fail on user.email (AttributeError -> 500).
login_for_access_token(username, password) ==
    /\ resp' =
         IF ~(LegacyLoginKeywords \subseteq LegacyAuthenticateParams)
         THEN Response("legacy_login", 500, "unexpected keyword argument 'db'",
                       username, password, NoToken, NoToken, NoToken, NoUser, clock)
         ELSE IF legacy_authenticate_user(username, password) = "False"
         THEN Response("legacy_login", 500, "'bool' object has no attribute 'email'",
                       username, password, NoToken, NoToken, NoToken, NoUser, clock)
         ELSE Response("legacy_login", 200, "", username, password, NoToken,
                       [key |-> "legacy", sub |-> "johndoe@example.com",
                        id |-> AbsentId, exp |-> clock + 7200],
                       NoToken, NoUser, clock)
    /\ Hand(resp')
    /\ UNCHANGED <<clock, accessTtl, refreshTtl, users, nextId, renewed>>
    /\ UNCHANGED uresp /\ UNCHANGED resetVars /\ UNCHANGED pointVars /\ UNCHANGED recordVars

\* ------------------------------------------------------------------- clock
\* a second passes; the response of the last request has been delivered
Tick ==
    /\ clock < MaxClock
    /\ clock' = clock + 1
    /\ resp' = NoResponse
    /\ uresp' = NoUserResponse
    /\ UNCHANGED <<accessTtl, refreshTtl, users, nextId, issuedAccess,
                   issuedRefresh, renewed>>
    /\ UNCHANGED resetVars /\ UNCHANGED pointVars /\ UNCHANGED recordVars


\* ------------------------------------------- password-reset token (legacy)
\* routes/auth/service.py. Every request runs in a session of its own; the
\* statements of concurrent requests interleave (no lock, no SELECT ... FOR
\* UPDATE), each statement seeing what is committed.
Procs == 1..MaxProcs
ResetTokens == {"tok1", "tok2"}
NewPasswords == {"new1", "new2"}
NoRow == [user_id |-> 0, reset_token |-> "", expires |-> 0]
\* after_redemption: the request was made after a row with its user_id and
\* token had been redeemed and deleted
IdleReq == [pc |-> "idle", user_id |-> 0, token |-> "", new_password |-> "",
            row |-> NoRow, result |-> "none", after_redemption |-> FALSE]

RowsOf(user_id) == {r \in resetRows : r.user_id = user_id}
LegacyById(user_id) == {u \in legacyUsers : u.id = user_id}

\* check_user_existence_by_id (routes/users/services)
check_user_existence_by_id(user_id) == LegacyById(user_id) # {}

Finish(p, result) == req' = [req EXCEPT ![p].pc = "done", ![p].result = result]

\* a client submits (user_id, token, new_password)
set_new_password_call(p, user_id, token, new_password) ==
    /\ req[p].pc = "idle"
    /\ req' = [req EXCEPT ![p] = [IdleReq EXCEPT !.pc = "count", !.user_id = user_id,
                                   !.token = token, !.new_password = new_password,
                                   !.after_redemption =
                                      \E row \in resetIssued \ resetRows :
                                         row.user_id = user_id /\ row.reset_token = token]]
    /\ UNCHANGED <<resetRows, resetIssued, legacyUsers, pwWrites>>
    /\ UNCHANGED authVars /\ UNCHANGED pointVars /\ UNCHANGED recordVars

\* if db_entry.count() > 0:  ... else return False
set_new_password_count(p) ==
    /\ req[p].pc = "count"
    /\ IF RowsOf(req[p].user_id) # {}
       THEN req' = [req EXCEPT ![p].pc = "first"]
       ELSE Finish(p, "False")
    /\ UNCHANGED <<resetRows, resetIssued, legacyUsers, pwWrites>>
    /\ UNCHANGED authVars /\ UNCHANGED pointVars /\ UNCHANGED recordVars

\* the guard of the redemption: not expired (strictly) and the exact token
RedeemableMutant(row, token, now) == now < row.expires
Redeemable(row, token, now) == now < row.expires /\ row.reset_token = token

\* reset_token = db_entry.first(), then the expiry and the token comparison.
\* A row deleted since the count makes first() None: AttributeError -> 500.
set_new_password_first(p) ==
    /\ req[p].pc = "first"
    /\ IF RowsOf(req[p].user_id) = {}
       THEN Finish(p, "Error500")
       ELSE \E row \in RowsOf(req[p].user_id) :
              IF Redeemable(row, req[p].token, clock)
              THEN req' = [req EXCEPT ![p].pc = "exists", ![p].row = row]
              ELSE Finish(p, "False")
    /\ UNCHANGED <<resetRows, resetIssued, legacyUsers, pwWrites>>
    /\ UNCHANGED authVars /\ UNCHANGED pointVars /\ UNCHANGED recordVars

\* update_user_password_by_id: the existence check, 404 for an unknown user
update_user_password_check(p) ==
    /\ req[p].pc = "exists"
    /\ IF check_user_existence_by_id(req[p].user_id)
       THEN req' = [req EXCEPT ![p].pc = "update"]
       ELSE Finish(p, "Error404")
    /\ UNCHANGED <<resetRows, resetIssued, legacyUsers, pwWrites>>
    /\ UNCHANGED authVars /\ UNCHANGED pointVars /\ UNCHANGED recordVars

\* update_user_password_by_id: UPDATE users SET password = <hash>; commit
update_user_password_by_id(p) ==
    /\ req[p].pc = "update"
    /\ \E salt \in Salts :
         legacyUsers' =
            {IF u.id = req[p].user_id
             THEN [u EXCEPT !.password = get_password_hash(req[p].new_password, salt)]
             ELSE u : u \in legacyUsers}
    /\ pwWrites' = pwWrites + Cardinality(LegacyById(req[p].user_id))
    /\ req' = [req EXCEPT ![p].pc = "delete"]
    /\ UNCHANGED <<resetRows, resetIssued>>
    /\ UNCHANGED authVars /\ UNCHANGED pointVars /\ UNCHANGED recordVars

\* db.delete(reset_token); db.commit(); return True. When the row is already
\* gone the DELETE matches no row: the ORM either only warns (the request
\* returns True) or raises (the request ends in a 500), by its configuration.
set_new_password_deleteMutant(p) ==
    /\ req[p].pc = "delete"
    /\ Finish(p, "True")
    /\ UNCHANGED <<resetRows, resetIssued, legacyUsers, pwWrites>>
    /\ UNCHANGED authVars /\ UNCHANGED pointVars /\ UNCHANGED recordVars
set_new_password_delete(p) ==
    /\ req[p].pc = "delete"
    /\ IF req[p].row \in resetRows
       THEN /\ resetRows' = resetRows \ {req[p].row}
            /\ Finish(p, "True")
       ELSE /\ UNCHANGED resetRows
            /\ \E outcome \in {"True", "Error500"} : Finish(p, outcome)
    /\ UNCHANGED <<resetIssued, legacyUsers, pwWrites>>
    /\ UNCHANGED authVars /\ UNCHANGED pointVars /\ UNCHANGED recordVars


\* ------------------------------------------------------------------ points
\* src/models/points.py: the columns of Point
PointColumns == {"id", "class_id", "student_id", "teacher_id", "diligence",
                 "test", "practice", "final", "deleted_at"}

\* primary keys are uuid4 strings, one space per table
PrincipalIds == {"u1", "u2", "u3", "u4"}
StudentIds == {"s1", "s2"}
TeacherIds == {"t1", "t2"}
PointIds == {"p1", "p2"}
Grades == {5, 9}
NoPoint == [id |-> "", student_id |-> "", teacher_id |-> "", final |-> 0, deleted_at |-> 0]
NoPrincipal == [id |-> "", super_admin |-> FALSE]
\* every point of the model belongs to the one class
ClassId == "c1"
\* the list response when the last response was not a list
NoList == [filters |-> [class_id |-> Absent, user |-> Absent], rows |-> {}]

PointResponse(op, status, user, point_id, point) ==
    [op |-> op, status |-> status, user |-> user, point_id |-> point_id,
     point |-> point]

\* what db.query(Point).filter(Point.id == point_id, Point.deleted == True)
\* .first() would yield, None (NoPoint) when no row matches
DeletedIsTrue(pt) == "deleted" \in DOMAIN pt /\ pt.deleted = TRUE
VisiblePoints(point_id) == {pt \in points : pt.id = point_id /\ DeletedIsTrue(pt)}
FirstPoint(rows) == IF rows = {} THEN {NoPoint} ELSE rows

TeacherOf(user) == {t \in teachers : t.user_id = user.id}
NoTeacher == [id |-> "", user_id |-> ""]
FirstTeacher(rows) == IF rows = {} THEN {NoTeacher} ELSE rows

\* current_admin (imported from src.util.auth, not defined there):
\* require_admin fails with 403 unless the principal is a super admin
current_admin(user) == IF user.super_admin THEN 200 ELSE 403

\* services/points.py get_point_by_id, as a status for the row first() gave.
\* Point has no attribute "deleted": building the filter raises
\* AttributeError, which is no SQLAlchemyError -> 500. A None point fails on
\* point.student_id before the 404 test is reached.
get_point_by_id(point, user) ==
    IF "deleted" \notin PointColumns THEN 500
    ELSE IF point = NoPoint THEN 500
    ELSE IF point.student_id # user.id /\ user.super_admin = FALSE
            /\ point.teacher_id # user.id THEN 403
    ELSE 200

\* services/points.py update_point, as a status: the teacher row of the
\* caller, the role test, then the query (filter arguments are evaluated left
\* to right: Point.deleted before teacher.id).
update_point(point, teacher, user) ==
    IF teacher = NoTeacher /\ user.super_admin = FALSE THEN 403
    ELSE IF "deleted" \notin PointColumns THEN 500
    ELSE IF teacher = NoTeacher THEN 500
    ELSE IF point = NoPoint \/ point.teacher_id # teacher.id THEN 404
    ELSE 200

\* services/points.py delete_point, as a status: no ownership test at all;
\* datetime.datetime.now() fails on the imported class -> 500.
delete_point(point) ==
    IF "deleted" \notin PointColumns THEN 500
    ELSE IF point = NoPoint THEN 404
    ELSE 500

\* POST /points/: current_admin, then create_point; the foreign keys of the
\* row must exist (IntegrityError -> Exception -> 500)
create_point_endpoint(user, id, student_id, teacher_id, final) ==
    /\ Cardinality(points) < MaxPoints
    /\ LET row == [id |-> id, student_id |-> student_id, teacher_id |-> teacher_id,
                   final |-> final, deleted_at |-> 0]
           status == IF current_admin(user) # 200 THEN 403
                     ELSE IF \/ student_id \notin {st.id : st \in students}
                             \/ teacher_id \notin {t.id : t \in teachers}
                             \/ \E pt \in points : pt.id = id /\ pt.student_id = student_id
                          THEN 500
                     ELSE 200
       IN /\ points' = IF status = 200 THEN points \cup {row} ELSE points
          /\ presp' = PointResponse("create", status, user, id,
                                    IF status = 200 THEN row ELSE NoPoint)
    /\ UNCHANGED <<students, teachers, principals>>
    /\ plist' = NoList
    /\ UNCHANGED authVars /\ UNCHANGED resetVars /\ UNCHANGED recordVars

\* GET /points/{point_id}: current_user, then get_point_by_id
get_point_endpoint(user, point_id) ==
    /\ \E point \in FirstPoint(VisiblePoints(point_id)) :
         LET status == get_point_by_id(point, user) IN
         presp' = PointResponse("get", status, user, point_id,
                                IF status = 200 THEN point ELSE NoPoint)
    /\ UNCHANGED <<students, teachers, principals, points>>
    /\ plist' = NoList
    /\ UNCHANGED authVars /\ UNCHANGED resetVars /\ UNCHANGED recordVars

\* services/points.py update_point called with its four arguments
update_point_serviceMutant(user, point_id, final) ==
    /\ \E teacher \in FirstTeacher(TeacherOf(user)) :
         /\ points' = {IF pt.id = point_id THEN [pt EXCEPT !.final = final] ELSE pt :
                         pt \in points}
         /\ presp' = PointResponse("update_point", update_point(NoPoint, teacher, user),
                                   user, point_id, NoPoint)
    /\ UNCHANGED <<students, teachers, principals>>
    /\ plist' = NoList
    /\ UNCHANGED authVars /\ UNCHANGED resetVars /\ UNCHANGED recordVars
update_point_service(user, point_id, final) ==
    /\ \E teacher \in FirstTeacher(TeacherOf(user)) :
       \E point \in FirstPoint({pt \in VisiblePoints(point_id) :
                                   pt.teacher_id = teacher.id}) :
         LET status == update_point(point, teacher, user) IN
         /\ points' = IF status = 200
                      THEN (points \ {point}) \cup {[point EXCEPT !.final = final]}
                      ELSE points
         /\ presp' = PointResponse("update_point", status, user, point_id,
                                   IF status = 200 THEN [point EXCEPT !.final = final]
                                   ELSE NoPoint)
    /\ UNCHANGED <<students, teachers, principals>>
    /\ plist' = NoList
    /\ UNCHANGED authVars /\ UNCHANGED resetVars /\ UNCHANGED recordVars

\* PATCH /points/{point_id}: current_user, then update_point(db, point_id,
\* data) without its user argument: TypeError -> 500
UpdateEndpointArgs == {"db", "point_id", "update_data"}
UpdateServiceParams == {"db", "point_id", "update_data", "user"}

update_point_endpoint(user, point_id, final) ==
    /\ UpdateEndpointArgs # UpdateServiceParams
    /\ presp' = PointResponse("update", 500, user, point_id, NoPoint)
    /\ UNCHANGED <<students, teachers, principals, points>>
    /\ plist' = NoList
    /\ UNCHANGED authVars /\ UNCHANGED resetVars /\ UNCHANGED recordVars

\* DELETE /points/{point_id}: current_admin, then delete_point
delete_point_endpointMutant(user, point_id) ==
    /\ \E point \in FirstPoint(VisiblePoints(point_id)) :
         presp' = PointResponse("delete", delete_point(point), user, point_id, NoPoint)
    /\ UNCHANGED <<students, teachers, principals, points>>
    /\ plist' = NoList
    /\ UNCHANGED authVars /\ UNCHANGED resetVars /\ UNCHANGED recordVars
delete_point_endpoint(user, point_id) ==
    /\ \E point \in FirstPoint(VisiblePoints(point_id)) :
         presp' = PointResponse("delete",
                                IF current_admin(user) # 200 THEN 403
                                ELSE delete_point(point),
                                user, point_id, NoPoint)
    /\ UNCHANGED <<students, teachers, principals, points>>
    /\ plist' = NoList
    /\ UNCHANGED authVars /\ UNCHANGED resetVars /\ UNCHANGED recordVars

\* ------------------------------------------------------------- points list
\* the column value a filter key is compared with
ColumnOf(pt, key) == IF key = "class_id" THEN ClassId ELSE pt[key]

\* services/points.py get_filtered_points, as status and rows. The first
\* filter is on Point.deleted (AttributeError, uncaught -> 500); a filter key
\* that is no attribute of Point raises ValueError -> 500; a super admin gets
\* every matching row, any other caller the rows whose student_id (or, with
\* the is_teacher filter set, whose teacher_id) equals user.id.
get_filtered_points(rows, filters, user) ==
    IF "deleted" \notin PointColumns THEN [status |-> 500, rows |-> {}]
    ELSE IF \E key \in DOMAIN filters : filters[key] # Absent /\ key \notin PointColumns
    THEN [status |-> 500, rows |-> {}]
    ELSE LET matched == {pt \in rows :
                           /\ DeletedIsTrue(pt)
                           /\ \A key \in DOMAIN filters :
                                 filters[key] # Absent => ColumnOf(pt, key) = filters[key]}
             is_teacher == "is_teacher" \in DOMAIN filters /\ filters.is_teacher = TRUE
         IN [status |-> 200,
             rows |-> IF user.super_admin THEN matched
                      ELSE IF is_teacher THEN {pt \in matched : pt.teacher_id = user.id}
                      ELSE {pt \in matched : pt.student_id = user.id}]

\* GET /points/: current_user, then get_filtered_points with the filters
\* {"class_id": class_id, "user": user_id}
get_points_endpoint(user, class_id, user_id) ==
    /\ LET filters == [class_id |-> class_id, user |-> user_id]
           result == get_filtered_points(points, filters, user)
       IN /\ presp' = PointResponse("list", result.status, user, "", NoPoint)
          /\ plist' = [filters |-> filters, rows |-> result.rows]
    /\ UNCHANGED <<students, teachers, principals, points>>
    /\ UNCHANGED authVars /\ UNCHANGED resetVars /\ UNCHANGED recordVars

\* ------------------------------------------------------ admin-only routes
\* the endpoints of /students and /teachers that depend on current_admin
AdminRoutes == {"students.create", "students.list", "students.delete",
                "teachers.create", "teachers.list", "teachers.get",
                "teachers.delete", "teachers.update"}

\* the guard of such an endpoint: 403, or 200 when the handler is entered
admin_route(user, route) ==
    /\ presp' = PointResponse("admin_route", current_admin(user), user, route, NoPoint)
    /\ plist' = NoList
    /\ UNCHANGED <<students, teachers, principals, points>>
    /\ UNCHANGED authVars /\ UNCHANGED resetVars /\ UNCHANGED recordVars

\* --------------------------------- endpoints without an identity dependency
\* controllers/users.py, classes.py, subjects.py, departments.py, majors.py:
\* the only dependency of every endpoint is get_db.
UnguardedResources == {"classes", "subjects", "departments", "majors"}
CrudOps == {"create", "list", "get", "update", "delete"}

\* the stored value when the submitted text itself is written to the column
plaintext(password) == <<"plaintext", "", password>>

\* what a client without credentials can put in the Authorization header
AnonymousTokens == {NoToken, Forged}

\* POST /users/: User(**vars(user)), add, commit. The password of the body
\* is stored as submitted; so is super_admin.
create_user(token, email, password, super_admin) ==
    /\ nextId <= MaxUsers
    /\ users' = users \cup {[id |-> nextId, email |-> email,
                             password |-> plaintext(password),
                             super_admin |-> super_admin, disabled |-> FALSE]}
    /\ nextId' = nextId + 1
    /\ uresp' = UserResponse("users", "create", 200, token, NoUser, TRUE)
    /\ UNCHANGED <<clock, accessTtl, refreshTtl, issuedAccess, issuedRefresh, renewed, resp>>
    /\ UNCHANGED resetVars /\ UNCHANGED pointVars /\ UNCHANGED recordVars

\* PATCH /users/{user_id}: every field of the body that was sent and is not
\* None is set on the row (email is required; Absent: the field was not sent)
update_user(token, user_id, email, password, super_admin, disabled) ==
    /\ IF UsersById(user_id) = {}
       THEN /\ uresp' = UserResponse("users", "update", 404, token, NoUser, TRUE)
            /\ UNCHANGED users
       ELSE \E user \in UsersById(user_id) :
            /\ users' = (users \ {user}) \cup
                 {[user EXCEPT !.email = email,
                               !.password = IF password = Absent THEN @
                                            ELSE plaintext(password),
                               !.super_admin = IF super_admin = Absent THEN @
                                               ELSE super_admin = "true",
                               !.disabled = IF disabled = Absent THEN @
                                            ELSE disabled = "true"]}
            /\ uresp' = UserResponse("users", "update", 200, token, NoUser, TRUE)
    /\ UNCHANGED <<clock, accessTtl, refreshTtl, nextId, issuedAccess, issuedRefresh,
                   renewed, resp>>
    /\ UNCHANGED resetVars /\ UNCHANGED pointVars /\ UNCHANGED recordVars

\* DELETE /users/{user_id}
delete_user(token, user_id) ==
    /\ IF UsersById(user_id) = {}
       THEN /\ uresp' = UserResponse("users", "delete", 404, token, NoUser, TRUE)
            /\ UNCHANGED users
       ELSE /\ users' = users \ UsersById(user_id)
            /\ uresp' = UserResponse("users", "delete", 204, token, NoUser, TRUE)
    /\ UNCHANGED <<clock, accessTtl, refreshTtl, nextId, issuedAccess, issuedRefresh,
                   renewed, resp>>
    /\ UNCHANGED resetVars /\ UNCHANGED pointVars /\ UNCHANGED recordVars

\* GET /users/ and GET /users/{user_id}
read_user(token, crud, user_id) ==
    /\ uresp' = UserResponse("users", crud,
                             IF crud = "get" /\ UsersById(user_id) = {} THEN 404 ELSE 200,
                             token, NoUser, TRUE)
    /\ UNCHANGED <<clock, accessTtl, refreshTtl, users, nextId, issuedAccess,
                   issuedRefresh, renewed, resp>>
    /\ UNCHANGED resetVars /\ UNCHANGED pointVars /\ UNCHANGED recordVars

\* an endpoint of /classes, /subjects, /departments or /majors: the handler
\* is entered for every request (its outcome is not modelled: status 0)
open_route(token, resource, crud) ==
    /\ uresp' = UserResponse(resource, crud, 0, token, NoUser, TRUE)
    /\ UNCHANGED <<clock, accessTtl, refreshTtl, users, nextId, issuedAccess,
                   issuedRefresh, renewed, resp>>
    /\ UNCHANGED resetVars /\ UNCHANGED pointVars /\ UNCHANGED recordVars

\* ------------------------------------------------ classes and departments
\* services/classes.py and services/departments.py behind the routers of
\* controllers/classes.py and controllers/departments.py. A row keeps the
\* two soft-delete columns of the models: deleted (Boolean, default False)
\* and deleted_at (DateTime, default None: 0 here).
RecordResources == {"classes", "departments"}
RecordIds == {"k1", "k2"}
NoRecord == [resource |-> "", id |-> "", deleted |-> FALSE, deleted_at |-> 0]

RecordResponse(resource, crud, id, status, rows) ==
    [resource |-> resource, crud |-> crud, id |-> id, status |-> status,
     rows |-> rows]

NoRecordResponse == RecordResponse("none", "none", "", 0, {})

RecordsOf(resource) == {r \in records : r.resource = resource}

\* the criterion each service puts on its queries: classes keep the rows
\* with deleted == True, departments the rows with deleted_at IS NULL
Criterion(resource, r) ==
    IF resource = "classes" THEN r.deleted = TRUE ELSE r.deleted_at = 0

\* the list services: query.filter(<criterion>).all()
get_filtered_records(resource) ==
    {r \in RecordsOf(resource) : Criterion(resource, r)}

\* Query.get(id) raises InvalidRequestError (a SQLAlchemyError) on a query
\* that already carries a filter criterion; otherwise the row or None
InvalidRequestError == [NoRecord EXCEPT !.id = "<InvalidRequestError>"]

QueryGet(has_criterion, rows, id) ==
    IF has_criterion THEN {InvalidRequestError}
    ELSE IF {r \in rows : r.id = id} = {} THEN {NoRecord}
    ELSE {r \in rows : r.id = id}

\* what the name datetime is bound to in the module: classes.py imports the
\* class and then the module (the module wins), departments.py the class
DatetimeBinding(resource) == IF resource = "classes" THEN "module" ELSE "class"

\* get_class_by_id: filter(Class.deleted == True).get(class_id)
\* get_department_by_id: filter_by(id=..., deleted_at=None).first()
get_record_by_id(resource, id) ==
    IF resource = "classes"
    THEN {IF r = InvalidRequestError THEN 500 ELSE IF r = NoRecord THEN 404 ELSE 200 :
            r \in QueryGet(TRUE, get_filtered_records(resource), id)}
    ELSE IF {r \in get_filtered_records(resource) : r.id = id} = {} THEN {404}
    ELSE {200}

\* POST /classes/, POST /departments/: the row is inserted with the column
\* defaults (the schemas carry neither deleted nor deleted_at); id is the
\* fresh uuid4 of the row
create_record(resource, id) ==
    /\ id \notin {r.id : r \in RecordsOf(resource)}
    /\ records' = records \cup {[resource |-> resource, id |-> id,
                                  deleted |-> FALSE, deleted_at |-> 0]}
    /\ rresp' = RecordResponse(resource, "create", id, 200, {})
    /\ UNCHANGED authVars /\ UNCHANGED resetVars /\ UNCHANGED pointVars

\* GET /classes/, GET /departments/
list_records(resource) ==
    /\ rresp' = RecordResponse(resource, "list", "", 200,
                               {r.id : r \in get_filtered_records(resource)})
    /\ UNCHANGED records
    /\ UNCHANGED authVars /\ UNCHANGED resetVars /\ UNCHANGED pointVars

\* GET /classes/{id}, GET /departments/{id}
get_record(resource, id) ==
    /\ \E status \in get_record_by_id(resource, id) :
         rresp' = RecordResponse(resource, "get", id, status, {})
    /\ UNCHANGED records
    /\ UNCHANGED authVars /\ UNCHANGED resetVars /\ UNCHANGED pointVars

\* PATCH /classes/{id}, PATCH /departments/{id}: the row is looked up as in
\* get-by-id, then the fields of the body are set (none of them is a
\* soft-delete column)
update_record(resource, id) ==
    /\ \E status \in get_record_by_id(resource, id) :
         rresp' = RecordResponse(resource, "update", id, status, {})
    /\ UNCHANGED records
    /\ UNCHANGED authVars /\ UNCHANGED resetVars /\ UNCHANGED pointVars

\* delete_class: filter(Class.deleted == True).get(class_id), then
\* deleted_at and deleted are set. delete_department: filter_by(id=...)
\* .first() (deleted rows included), then deleted_at = datetime.datetime
\* .now(), an AttributeError on the class datetime -> 500 before the
\* assignment.
delete_record(resource, id) ==
    /\ \E found \in (IF resource = "classes"
                      THEN QueryGet(TRUE, get_filtered_records(resource), id)
                      ELSE QueryGet(FALSE, RecordsOf(resource), id)) :
         LET status == IF found = InvalidRequestError THEN 500
                       ELSE IF found = NoRecord THEN 404
                       ELSE IF DatetimeBinding(resource) # "module" THEN 500
                       ELSE 204
         IN /\ records' = IF status = 204
                           THEN (records \ {found}) \cup
                                {[found EXCEPT !.deleted_at = clock + 1,
                                               !.deleted = (resource = "classes")]}
                           ELSE records
            /\ rresp' = RecordResponse(resource, "delete", id, status, {})
    /\ UNCHANGED authVars /\ UNCHANGED resetVars /\ UNCHANGED pointVars

\* ------------------------------------------------- the authentication core
IdleRecords == records = {} /\ rresp = NoRecordResponse

IdleReset ==
    /\ resetRows = {} /\ resetIssued = {} /\ legacyUsers = {} /\ pwWrites = 0
    /\ req = [p \in Procs |-> IdleReq]

IdlePoints ==
    /\ students = {} /\ teachers = {} /\ principals = {} /\ points = {}
    /\ presp = PointResponse("none", 0, NoPrincipal, "", NoPoint)
    /\ plist = NoList

Init ==
    /\ clock = 0
    /\ \E cfg \in TtlConfigs : accessTtl = cfg[1] /\ refreshTtl = cfg[2]
    /\ users = {}
    /\ nextId = 1
    /\ issuedAccess = {}
    /\ issuedRefresh = {}
    /\ renewed = {}
    /\ resp = NoResponse
    /\ uresp = NoUserResponse
    /\ IdleReset
    /\ IdlePoints
    /\ IdleRecords

\* the body of PATCH /users/{user_id} sent next to the logins: a new
\* password and the disabled flag, as <<password, disabled>>
ProfileChanges == {<<"other", "true">>}

\* requests are answered one at a time: the next request is taken once the
\* response of the last one has been delivered
Ready == resp = NoResponse /\ uresp = NoUserResponse

Deliver ==
    /\ resp # NoResponse \/ uresp # NoUserResponse
    /\ resp' = NoResponse
    /\ uresp' = NoUserResponse
    /\ UNCHANGED <<clock, accessTtl, refreshTtl, users, nextId, issuedAccess,
                   issuedRefresh, renewed>>
    /\ UNCHANGED resetVars /\ UNCHANGED pointVars /\ UNCHANGED recordVars

Next ==
    \/ Tick
    \/ Deliver
    \/ \E email \in Emails, password \in SignupPasswords :
         Ready /\ nextId <= MaxSignups /\ service_signup_users(email, password)
    \/ \E user \in users, change \in ProfileChanges :
         Ready /\ update_user(NoToken, user.id, user.email, change[1], Absent, change[2])
    \/ \E email \in Emails, password \in Passwords :
         Ready /\ login_authorization(email, password)
    \/ \E username \in FakeUsers, password \in Passwords :
         Ready /\ login_for_access_token(username, password)
    \/ \E token \in Presentable : Ready /\ token_endpoint("refresh_token", token)
    \/ \E grant_type \in GrantTypes \ {"refresh_token"} :
         Ready /\ token_endpoint(grant_type, NoToken)
    \/ \E token \in Presentable : Ready /\ resolve(token)
    \/ \E token \in Presentable : Ready /\ resolve_dep(token)
    \/ \E user_id \in UserIds : Ready /\ delete_user_by_id(user_id)

Spec == Init /\ [][Next]_vars

IdleAuth ==
    /\ accessTtl = 0 /\ refreshTtl = 0 /\ users = {} /\ nextId = 1
    /\ issuedAccess = {} /\ issuedRefresh = {} /\ renewed = {}
    /\ resp = NoResponse
    /\ uresp = NoUserResponse

\* a reset-token row for user 1 may have been created and delivered; the
\* user may exist or not
InitReset ==
    /\ clock = 0
    /\ IdleAuth
    /\ IdlePoints
    /\ IdleRecords
    /\ \E rows \in {{}} \cup {{[user_id |-> 1, reset_token |-> "tok1", expires |-> e]} :
                               e \in 1..MaxClock} :
         resetRows = rows /\ resetIssued = rows
    /\ legacyUsers \in {{}, {[id |-> 1, password |-> get_password_hash("old", "salt0")]}}
    /\ pwWrites = 0
    /\ req = [p \in Procs |-> IdleReq]

NextReset ==
    \/ Tick
    \/ \E p \in Procs, token \in ResetTokens, new_password \in NewPasswords :
         set_new_password_call(p, 1, token, new_password)
    \/ \E p \in Procs : set_new_password_count(p)
    \/ \E p \in Procs : set_new_password_first(p)
    \/ \E p \in Procs : update_user_password_check(p)
    \/ \E p \in Procs : update_user_password_by_id(p)
    \/ \E p \in Procs : set_new_password_delete(p)

SpecReset == InitReset /\ [][NextReset]_vars

\* u1 is a super admin, u2 and u3 are students, u4 is a teacher; the admin
\* may be a teacher too
InitPoints ==
    /\ clock = 0
    /\ IdleAuth
    /\ IdleReset
    /\ IdleRecords
    /\ principals = {[id |-> "u1", super_admin |-> TRUE], [id |-> "u2", super_admin |-> FALSE],
                     [id |-> "u3", super_admin |-> FALSE], [id |-> "u4", super_admin |-> FALSE]}
    /\ students = {[id |-> "s1", user_id |-> "u2"], [id |-> "s2", user_id |-> "u3"]}
    /\ teachers \in {{[id |-> "t1", user_id |-> "u4"]},
                     {[id |-> "t1", user_id |-> "u4"], [id |-> "t2", user_id |-> "u1"]}}
    /\ points = {}
    /\ presp = PointResponse("none", 0, NoPrincipal, "", NoPoint)
    /\ plist = NoList

NextPoints ==
    \/ \E user \in principals, id \in PointIds, student_id \in StudentIds,
          teacher_id \in TeacherIds, final \in Grades :
         create_point_endpoint(user, id, student_id, teacher_id, final)
    \/ \E user \in principals, point_id \in PointIds :
         get_point_endpoint(user, point_id)
    \/ \E user \in principals, point_id \in PointIds, final \in Grades :
         update_point_service(user, point_id, final)
    \/ \E user \in principals, point_id \in PointIds, final \in Grades :
         update_point_endpoint(user, point_id, final)
    \/ \E user \in principals, point_id \in PointIds :
         delete_point_endpoint(user, point_id)
    \/ \E user \in principals, class_id \in {Absent, ClassId},
          user_id \in {Absent, "u2"} :
         get_points_endpoint(user, class_id, user_id)
    \/ \E user \in principals, route \in AdminRoutes : admin_route(user, route)

SpecPoints == InitPoints /\ [][NextPoints]_vars

\* the user store behind the endpoints that take no identity dependency
InitUsers ==
    /\ clock = 0
    /\ IdleAuth
    /\ IdleReset
    /\ IdlePoints
    /\ IdleRecords

NextUsers ==
    \/ Deliver
    \/ \E email \in Emails, password \in SignupPasswords :
         Ready /\ service_signup_users(email, password)
    \/ \E token \in AnonymousTokens, email \in Emails, password \in Passwords,
          super_admin \in BOOLEAN :
         Ready /\ create_user(token, email, password, super_admin)
    \/ \E token \in AnonymousTokens, user_id \in UserIds, email \in Emails,
          password \in Passwords \cup {Absent}, super_admin \in {Absent, "true", "false"},
          disabled \in {Absent, "true"} :
         Ready /\ update_user(token, user_id, email, password, super_admin, disabled)
    \/ \E token \in AnonymousTokens, user_id \in UserIds :
         Ready /\ delete_user(token, user_id)
    \/ \E token \in AnonymousTokens, crud \in {"list", "get"}, user_id \in UserIds :
         Ready /\ read_user(token, crud, user_id)
    \/ \E token \in AnonymousTokens, resource \in UnguardedResources, crud \in CrudOps :
         Ready /\ open_route(token, resource, crud)

SpecUsers == InitUsers /\ [][NextUsers]_vars

\* the classes and departments tables behind their routers
InitRecords ==
    /\ clock = 0
    /\ IdleAuth
    /\ IdleReset
    /\ IdlePoints
    /\ IdleRecords

NextRecords ==
    \/ \E resource \in RecordResources, id \in RecordIds : create_record(resource, id)
    \/ \E resource \in RecordResources : list_records(resource)
    \/ \E resource \in RecordResources, id \in RecordIds : get_record(resource, id)
    \/ \E resource \in RecordResources, id \in RecordIds : update_record(resource, id)
    \/ \E resource \in RecordResources, id \in RecordIds : delete_record(resource, id)

SpecRecords == InitRecords /\ [][NextRecords]_vars

\* ================================================================== claims

\* ---- C1 (SpecReset) ------------------------------------------------------
\* C1: when all the redemption attempts of one valid reset token (same
\* user_id, the matching token, the token unexpired throughout, the user
\* existing) have run, in any interleaving, exactly one of them has succeeded
\* and the stored password has been changed exactly once.
MatchingAttempt(p) ==
    \E row \in resetIssued :
       req[p].user_id = row.user_id /\ req[p].token = row.reset_token

C1_ExactlyOneRedemption ==
    ( /\ \A p \in Procs : req[p].pc = "done" /\ MatchingAttempt(p)
      /\ \E row \in resetIssued : clock < row.expires
      /\ legacyUsers # {} )
    => ( /\ Cardinality({p \in Procs : req[p].result = "True"}) = 1
         /\ pwWrites = 1 )

\* ---- C2 (Spec) -----------------------------------------------------------
\* a resolver returned a principal, or the refresh flow re-issued tokens
Accepted ==
    /\ resp.op \in {"get_current_user", "get_current_user_dep", "refresh"}
    /\ resp.status = 200

\* the subject claim the operation reads: sub for get_current_user, id for
\* get_current_user_dep and validate_refresh_token
SubjectPresent ==
    IF resp.op = "get_current_user"
    THEN resp.token.sub # Absent /\ resp.token.sub # ""
    ELSE resp.token.id # AbsentId

\* C2 as stated: a token is accepted only if its signature verifies, the
\* current time is strictly before its expiry claim and its subject claim is
\* present and non-empty.
C2_AcceptedOnlyIfStrictlyBeforeExpiry ==
    Accepted => ( /\ resp.token.key = "server"
                  /\ resp.now < resp.token.exp
                  /\ SubjectPresent )

\* C2 amended: a token is accepted only if its signature verifies, the
\* current time (in whole seconds) is not after its expiry claim and its
\* subject claim is present and non-empty.
C2_AcceptedOnlyIfValid ==
    Accepted => ( /\ resp.token.key = "server"
                  /\ resp.now <= resp.token.exp
                  /\ SubjectPresent )

\* a principal was resolved from a bearer token
C2_Witness ==
    /\ resp.op = "get_current_user_dep" /\ resp.status = 200
    /\ resp.principal # NoUser

\* ---- C3 (Spec) -----------------------------------------------------------
\* C3: a login response (current or legacy) carries an access or refresh
\* token only if a principal with the submitted email is stored and the
\* submitted password verifies against its stored hash; a failed login
\* carries no token.
C3_TokensOnlyOnVerifiedLogin ==
    /\ ( resp.op = "login" /\ (resp.access # NoToken \/ resp.refresh # NoToken) )
       => ( /\ resp.status = 200
            /\ \E u \in users : /\ u.email = resp.email
                                /\ u.password[1] = "sha256_crypt"
                                /\ u.password[3] = resp.password )
    /\ ( resp.op = "legacy_login" /\ (resp.access # NoToken \/ resp.refresh # NoToken) )
       => ( /\ resp.status = 200
            /\ resp.email \in FakeUsers /\ resp.password = "secret" )
    /\ ( resp.op \in {"login", "legacy_login"} /\ resp.status # 200 )
       => ( resp.access = NoToken /\ resp.refresh = NoToken )

\* a login succeeded and returned both tokens
C3_Witness ==
    /\ resp.op = "login" /\ resp.status = 200
    /\ resp.access # NoToken /\ resp.refresh # NoToken

\* ---- C4 (Spec) -----------------------------------------------------------
\* C4: a token whose expiry claim is in the past is never accepted: no
\* resolver returns a principal for it and the refresh flow returns no token
\* for it.
C4_ExpiredNeverAccepted ==
    ( /\ resp.op \in {"get_current_user", "get_current_user_dep", "refresh"}
      /\ resp.token.exp < resp.now )
    => ( /\ resp.status # 200
         /\ resp.principal = NoUser
         /\ resp.access = NoToken /\ resp.refresh = NoToken )

\* a refresh token the server signed was presented after its expiry and
\* refused
C4_Witness ==
    /\ resp.op = "refresh" /\ resp.token \in issuedRefresh
    /\ resp.token.exp < resp.now
    /\ resp.status = 401 /\ resp.access = NoToken

\* ---- C5 (SpecPoints) -----------------------------------------------------
PointsWithId(point_id) == {pt \in points : pt.id = point_id}
IsStudentOf(user, pt) == \E st \in students : st.user_id = user.id /\ st.id = pt.student_id
IsTeacherOf(user, pt) == \E t \in teachers : t.user_id = user.id /\ t.id = pt.teacher_id
IsStudent(user) == \E st \in students : st.user_id = user.id

\* C5: a read, update or delete of an existing point record requested by a
\* non-admin student who is neither the record's student nor its teacher is
\* denied with 403.
C5_ForeignStudentDenied403 ==
    ( /\ presp.op \in {"get", "update", "update_point", "delete"}
      /\ PointsWithId(presp.point_id) # {}
      /\ presp.user.super_admin = FALSE /\ IsStudent(presp.user)
      /\ \A pt \in PointsWithId(presp.point_id) :
            ~IsStudentOf(presp.user, pt) /\ ~IsTeacherOf(presp.user, pt) )
    => presp.status = 403

\* ---- C6 (SpecPoints) -----------------------------------------------------
\* C6: the student a point record belongs to, the teacher who owns it and
\* any super admin each succeed at reading, updating and deleting it.
C6_OwnersAndAdminSucceed ==
    ( /\ presp.op \in {"get", "update", "update_point", "delete"}
      /\ PointsWithId(presp.point_id) # {}
      /\ \/ presp.user.super_admin
         \/ \A pt \in PointsWithId(presp.point_id) : IsStudentOf(presp.user, pt)
         \/ \A pt \in PointsWithId(presp.point_id) : IsTeacherOf(presp.user, pt) )
    => presp.status \in {200, 204}

\* ---- C7 (Spec) -----------------------------------------------------------
\* C7: a login that fails on a wrong password for a known email surfaces
\* the same status and the same message as a login with an email that
\* matches no principal.
C7_NoEnumerationLeak ==
    ( /\ resp.op = "login" /\ resp.detail # DbFailureDetail
      /\ \E u \in users : /\ u.email = resp.email
                          /\ u.password[1] = "sha256_crypt"
                          /\ u.password[3] # resp.password )
    => LET unknown == service_login_for_access_token(NoUser, resp.email,
                                                      resp.password, resp.now)
       IN resp.status = unknown.status /\ resp.detail = unknown.detail

\* ---- C8 (Spec) -----------------------------------------------------------
\* C8: a token handed out only as an access token yields no tokens in the
\* refresh flow, and a token handed out only as a refresh token resolves no
\* principal as a bearer credential.
C8_TokenRoleSeparation ==
    /\ ( resp.op = "refresh" /\ resp.token \in issuedAccess \ issuedRefresh )
       => ( resp.access = NoToken /\ resp.refresh = NoToken )
    /\ ( /\ resp.op \in {"get_current_user", "get_current_user_dep"}
         /\ resp.token \in issuedRefresh \ issuedAccess )
       => resp.principal = NoUser

\* ---- C9 (Spec) -----------------------------------------------------------
\* C9: an access token minted by the refresh flow from a login's valid
\* refresh token, after that login's access token expired, resolves through
\* get_current_user, while unexpired and while the principal exists, to the
\* principal the refresh token was issued for.
C9_RefreshedTokenResolves ==
    ( /\ resp.op = "get_current_user"
      /\ resp.token \in renewed
      /\ resp.now < resp.token.exp
      /\ UsersById(resp.token.id) # {} )
    => ( resp.status = 200 /\ resp.principal.id = resp.token.id )

\* ---- C10 (Spec) ----------------------------------------------------------
\* C10: the refresh flow answers 401 and issues no token when the refresh
\* token is expired, is malformed or does not verify, or names a subject
\* that is no stored principal.
C10_RefreshFailsOnBadToken ==
    ( /\ resp.op = "refresh"
      /\ \/ resp.token.exp < resp.now
         \/ resp.token.key # "server"
         \/ UsersById(resp.token.id) = {} )
    => ( /\ resp.status = 401
         /\ resp.access = NoToken /\ resp.refresh = NoToken )

\* ---- C11 (Spec) ----------------------------------------------------------
\* the principal the resolver looks up for the token: by the sub claim in
\* get_current_user, by the id claim in get_current_user_dep
SubjectRow(op, token) ==
    IF op = "get_current_user" THEN UsersByEmail(token.sub) ELSE UsersById(token.id)

\* C11: when a token the server issued still decodes but the principal its
\* subject names is no longer stored, the resolver answers 401 and returns
\* no principal.
C11_DeletedPrincipalRejected401 ==
    ( /\ resp.op \in {"get_current_user", "get_current_user_dep"}
      /\ resp.token \in issuedAccess \cup issuedRefresh
      /\ jwt_decode_ok(resp.token, resp.now)
      /\ IF resp.op = "get_current_user" THEN resp.token.sub # Absent
                                         ELSE resp.token.id # AbsentId
      /\ SubjectRow(resp.op, resp.token) = {} )
    => ( resp.status = 401 /\ resp.principal = NoUser )

\* ---- C12 (Spec) ----------------------------------------------------------
\* the claim the resolver reads is missing from the token
ClaimMissing(op, token) ==
    IF op = "get_current_user" THEN token.sub = Absent ELSE token.id = AbsentId

BeforeTtlElapsed(issued, ttl) == issued .. (issued + ttl - 1)

C19_ExpIsIssueTimePlusTtl ==
    ( resp.op \in {"login", "refresh"} /\ resp.status = 200 )
    => ( /\ resp.access.exp = resp.now + accessTtl
         /\ resp.refresh.exp = resp.now + refreshTtl )

\* ---- C20 (Spec) ----------------------------------------------------------
\* C20: in a successful login response the refresh token differs from the
\* access token whenever the refresh lifetime is at least the access
\* lifetime.
C20_RefreshDistinctFromAccess ==
    ( resp.op = "login" /\ resp.status = 200 /\ refreshTtl >= accessTtl )
    => resp.refresh # resp.access

\* ---- C13 (SpecUsers) -----------------------------------------------------
\* C13: the password field of every stored user is an output of the
\* password hasher, never the text a client submitted.
C13_StoredPasswordsAreHashes ==
    \A u \in users : IsHash(u.password)

\* ---- C14 (SpecUsers) -----------------------------------------------------
\* C14: the handler of a resource endpoint is entered only after the
\* identity resolver has resolved a principal from the bearer token of the
\* request.
C14_HandlerOnlyAfterResolver ==
    uresp.handler => uresp.principal # NoUser

\* ---- C15 (SpecPoints) ----------------------------------------------------
\* the responses of the endpoints that depend on current_admin
AdminOnlyOps == {"create", "delete", "admin_route"}

\* C15: on an admin-only endpoint a principal whose super_admin flag is
\* false is denied with 403, and a principal whose flag is true is not
\* stopped by the guard.
C15_AdminGuard ==
    presp.op \in AdminOnlyOps
    => ( /\ presp.user.super_admin = FALSE => presp.status = 403
         /\ presp.user.super_admin = TRUE => presp.status # 403 )

\* a principal that is no super admin asked for the deletion of an existing
\* point and was denied
C15_Witness ==
    /\ presp.op = "delete" /\ presp.user.super_admin = FALSE
    /\ PointsWithId(presp.point_id) # {}
    /\ presp.status = 403

\* ---- C16 (SpecPoints) ----------------------------------------------------
\* the stored rows the filters of the last list request select
MatchingFilters ==
    {pt \in points : plist.filters.class_id \in {Absent, ClassId}}

\* C16: the points list answers a principal that is no super admin with
\* records of which the caller is the student or the teacher only, and a
\* super admin with all the records that match the filters.
C16_ListOnlyOwnRecords ==
    presp.op = "list"
    => ( /\ presp.status = 200
         /\ IF presp.user.super_admin
            THEN plist.rows = MatchingFilters
            ELSE \A pt \in plist.rows :
                    IsStudentOf(presp.user, pt) \/ IsTeacherOf(presp.user, pt) )

C21_ExpiresInMatchesAccessExpiry ==
    ( resp.op \in {"login", "refresh"} /\ resp.status = 200 )
    => ( /\ resp.expires_in = accessTtl
         /\ resp.access.exp = resp.now + resp.expires_in )

\* ---- C22 (SpecReset) -----------------------------------------------------
\* C22: a successful redemption of a reset token writes the hash of the new
\* password to the user's row and deletes the token row, and every
\* redemption attempt made afterwards with the same token fails and leaves
\* the stored password unchanged.
C22_RedemptionIsSingleUse ==
    [][ \A p \in Procs :
          /\ ( req[p].pc = "update" /\ req'[p].pc = "delete" )
             => /\ \E u \in legacyUsers' : u.id = req[p].user_id
                /\ \A u \in legacyUsers' :
                      u.id = req[p].user_id
                      => IsHash(u.password) /\ u.password[3] = req[p].new_password
          /\ ( req[p].pc = "delete" /\ req'[p].result = "True" )
             => req[p].row \notin resetRows'
          /\ ( req[p].after_redemption /\ req'[p] # req[p] )
             => /\ legacyUsers' = legacyUsers
                /\ req'[p].pc = "done" /\ req'[p].result = "False" ]_vars

\* a token was redeemed, and an attempt made afterwards with the same token
\* has failed
C22_Witness ==
    \E p \in Procs, q \in Procs :
       /\ req[p].pc = "done" /\ req[p].result = "True"
       /\ req[q].after_redemption /\ req[q].token = req[p].token
       /\ req[q].pc = "done" /\ req[q].result = "False"

\* ---- C28 (SpecReset) -----------------------------------------------------
\* the guard of a redemption cannot pass: no row for the user, or every row
\* of the user has another token or is expired
CannotRedeem(user_id, token, now) ==
    \A row \in RowsOf(user_id) : row.reset_token # token \/ ~(now < row.expires)

\* C28: a redemption whose guard fails (no token row for the user, another
\* token than the stored one, or the current time not before the expiry of
\* the row) ends without success, and no step of it changes the stored
\* password or the token row.
C28_FailedRedemptionChangesNothing ==
    [][ \A p \in Procs :
          ( req[p].pc \in {"count", "first"} /\ req'[p] # req[p] )
          => /\ UNCHANGED <<legacyUsers, resetRows, pwWrites>>
             /\ ( req[p].pc = "count" /\ RowsOf(req[p].user_id) = {} )
                => ( req'[p].pc = "done" /\ req'[p].result = "False" )
             /\ ( req[p].pc = "first"
                  /\ CannotRedeem(req[p].user_id, req[p].token, clock) )
                => ( req'[p].pc = "done"
                     /\ req'[p].result \in {"False", "Error500"} ) ]_vars

\* a redemption with another token than the stored one has failed while the
\* row and the user's first password are still stored
C28_Witness ==
    \E p \in Procs :
       /\ req[p].pc = "done" /\ req[p].result = "False"
       /\ \E row \in RowsOf(req[p].user_id) : row.reset_token # req[p].token
       /\ \E u \in LegacyById(req[p].user_id) : u.password[3] = "old"

\* ---- C23 (Spec) ----------------------------------------------------------
\* C23: a token the server handed out, presented no later than its expiry
\* while its principal is stored, is accepted (by get_current_user_dep as a
\* bearer credential, by the refresh flow as a refresh token) whatever
\* logins, refreshes, rotations and password changes happened since it was
\* issued.
C23_NoRevocation ==
    ( /\ resp.op \in {"get_current_user_dep", "refresh"}
      /\ resp.token \in issuedAccess \cup issuedRefresh
      /\ resp.now <= resp.token.exp
      /\ UsersById(resp.token.id) # {} )
    => ( /\ resp.status = 200
         /\ resp.op = "get_current_user_dep" => resp.principal.id = resp.token.id
         /\ resp.op = "refresh" => resp.access.id = resp.token.id )

\* a token of a login resolves its principal after the principal's password
\* was changed and after the refresh flow returned a rotated refresh token
C23_Witness ==
    /\ resp.op = "get_current_user_dep" /\ resp.status = 200
    /\ resp.token.sub # Absent
    /\ ~IsHash(resp.principal.password)
    /\ \E r \in issuedRefresh : r.sub = Absent /\ r.id = resp.token.id

\* ---- C24 (Spec) ----------------------------------------------------------
\* C24: a login for a principal whose stored password is no output of the
\* hasher fails with status 500.
C24_CorruptHashIs500 ==
    ( /\ resp.op = "login" /\ resp.detail # DbFailureDetail
      /\ \E u \in UsersByEmail(resp.email) : ~IsHash(u.password) )
    => resp.status = 500

\* ---- C25 (Spec) ----------------------------------------------------------
\* C25: a login whose principal lookup raised in the persistence layer
\* fails with status 500.
C25_LookupFailureIs500 ==
    ( resp.op = "login" /\ resp.detail = DbFailureDetail )
    => resp.status = 500

\* ---- C27 (Spec) ----------------------------------------------------------
\* C27: get_current_user resolves the principal of a valid token whose
\* disabled flag is set, with the outcome it has for the same principal
\* with the flag cleared.
C27_DisabledPrincipalResolved ==
    ( /\ resp.op = "get_current_user"
      /\ resp.token \in issuedAccess \cup issuedRefresh
      /\ jwt_decode_ok(resp.token, resp.now)
      /\ resp.token.sub # Absent
      /\ \E u \in UsersByEmail(resp.token.sub) : u.disabled )
    => ( /\ resp.status = 200
         /\ resp.principal \in UsersByEmail(resp.token.sub)
         /\ \A u \in UsersByEmail(resp.token.sub) :
               get_current_user(resp.token, [u EXCEPT !.disabled = FALSE],
                                resp.now).status = resp.status )

\* ---- C26 (SpecUsers) -----------------------------------------------------
\* the primary keys handed out so far
CreatedIds == 1..(nextId - 1)

\* C26: deleting a principal is a soft delete: every user row that was
\* created is still in the store.
C26_DeletedUserRowKept ==
    \A id \in CreatedIds : UsersById(id) # {}

\* ---- C29 (SpecUsers) -----------------------------------------------------
\* C29: at most one stored user has a given email, and a sign-up refused
\* with 400 is one for an email that is registered.
C29_EmailIsUnique ==
    /\ \A u \in users, v \in users : u.email = v.email => u = v
    /\ ( resp.op = "signup" /\ resp.status = 400 )
       => UsersByEmail(resp.email) # {}

\* ---- C30 (SpecRecords) ---------------------------------------------------
\* the record was created and no delete has succeeded on it
Live(resource, id) ==
    \E r \in RecordsOf(resource) : r.id = id /\ r.deleted_at = 0 /\ r.deleted = FALSE

\* a delete has succeeded on the record
SoftDeleted(resource, id) ==
    \E r \in RecordsOf(resource) : r.id = id /\ (r.deleted_at # 0 \/ r.deleted = TRUE)

\* C30: a class or department that was created and never deleted is
\* returned by get-by-id, is contained in the list and can be updated; once
\* a delete has succeeded on it, get-by-id and update answer 404 and the
\* list does not contain it.
C30_SoftDeleteVisibility ==
    /\ ( rresp.crud \in {"get", "update"} /\ Live(rresp.resource, rresp.id) )
       => rresp.status = 200
    /\ ( rresp.crud \in {"get", "update"} /\ SoftDeleted(rresp.resource, rresp.id) )
       => rresp.status = 404
    /\ rresp.crud = "list"
       => ( /\ rresp.status = 200
            /\ rresp.rows = {id \in RecordIds : Live(rresp.resource, id)} )

====
